---- MODULE Spec2Model ----
(***************************************************************************)
(* Model of the forta node's dispatch core:                                *)
(*   - the Registry Reconciler (services/registry/updates.go):             *)
(*     detectAgentEvents / sendAgentUpdate / makeAgentConfig on the        *)
(*     detecting side, listenToAgentUpdates / handleAgentUpdate on the     *)
(*     consuming side, joined by the agentUpdates channel;                 *)
(*   - the Agent Worker (agentpool, agent.go): processTransactions and     *)
(*     processBlocks, the two pipelines of one agent, Close, and the       *)
(*     block filter shouldProcessBlock.                                    *)
(* The subsystems share no state; each has its own specification.          *)
(***************************************************************************)
EXTENDS Integers, Sequences, FiniteSets, TLC

VARIABLES
    \* ---- Registry Reconciler ----
    agentsConfigs,    \* rs.agentsConfigs: the roster, a sequence of AgentConfig values
    agentUpdates,     \* rs.agentUpdates: the channel of pending *agentUpdate
    agentUpdatesWg,   \* rs.agentUpdatesWg: counter of the wait group
    consumerPc,       \* position of listenToAgentUpdates: "recv", "wait", "publish", "panic"
    update,           \* the loop variable `update` of listenToAgentUpdates
    prevConfigs,      \* history: the roster as it stood before the last handleAgentUpdate
    published,        \* payload of the last Publish(SubjectAgentsVersionsLatest, ...)
    pubCount,         \* history: number of roster broadcasts so far
    handled,          \* history: number of handleAgentUpdate calls that returned
    detPc,            \* position of detectAgentEvents: "idle", "scan", "fetch", "send"
    logIdx,           \* number of logs of the event the loop of detectAgentEvents has read
    det,              \* the decoded event (addedEvent/updatedEvent/removedEvent) last taken in hand
    agentCfg,         \* the named result agentCfg of makeAgentConfig
    detErr,           \* the error detectAgentEvents returned last: "nil", "fetch", "decode"
    catCalls,         \* history: ipfsClient.Cat calls made for the event last taken in hand
    fetched,          \* history: a Cat call for the event last taken in hand has succeeded
    detCount,         \* history: number of transaction events given to detectAgentEvents
    evtForeign,       \* history: the logs read of the last event hold an event of another
                      \*          pool and none of this node's pool
    unread,           \* history: the log of the transaction that follows the log whose
                      \*          update was enqueued last, when it is a log detectAgentEvents
                      \*          sends an update for (NoneLog otherwise)
    \* ---- Agent Worker (one agent) ----
    evalTxCh,         \* agent.evalTxCh: buffered channel of transaction requests
    evalBlockCh,      \* agent.evalBlockCh: buffered channel of block requests
    chClosed,         \* Close has closed both channels and the client
    txPc,             \* position of processTransactions: "recv", "eval", "stopped", "done"
    blockPc,          \* position of processBlocks, likewise
    txRequest,        \* the loop variable `request` of processTransactions (0: none)
    blockRequest,     \* the loop variable `request` of processBlocks (0: none)
    errCount,         \* agent.errCounter: its count of consecutive critical errors
    stopMsgs,         \* the SubjectAgentsActionStop messages published, in order
    txResults,        \* what was sent on agent.txResults, in order
    blockResults,     \* what was sent on agent.blockResults, in order
    txHist,           \* history: the outcomes of the EvaluateTx calls, in order
    blockHist,        \* history: the outcomes of the EvaluateBlock calls, in order
    txSent,           \* history: the requests sent on evalTxCh, in order
    blockSent,        \* history: the requests sent on evalBlockCh, in order
    txEvaluated,      \* history: the requests given to EvaluateTx, in order
    blockEvaluated,   \* history: the requests given to EvaluateBlock, in order
    nextReq,          \* history: the number the next request given to the agent gets
    \* ---- Agent Worker: the block filter ----
    StartBlock,       \* agent.config.StartBlock (NilBlock: the pointer is nil)
    StopBlock,        \* agent.config.StopBlock (NilBlock: the pointer is nil)
    blockNumber,      \* the argument of the shouldProcessBlock call, a string
    processBlock,     \* what the shouldProcessBlock call returned
    filterCalled      \* history: shouldProcessBlock has been called

registryVars == <<agentsConfigs, agentUpdates, agentUpdatesWg, consumerPc, update,
                  prevConfigs, published, pubCount, handled, detPc, logIdx, det,
                  agentCfg, detErr, catCalls, fetched, detCount, evtForeign, unread>>

agentVars == <<evalTxCh, evalBlockCh, chClosed, txPc, blockPc, txRequest, blockRequest,
               errCount, stopMsgs, txResults, blockResults, txHist, blockHist, txSent,
               blockSent, txEvaluated, blockEvaluated, nextReq>>

filterVars == <<StartBlock, StopBlock, blockNumber, processBlock, filterCalled>>

vars == <<registryVars, agentVars, filterVars>>

(***************************************************************************)
(* Bounds                                                                  *)
(***************************************************************************)
MaxEvents  == 2     \* transaction events delivered to the detector
MaxLogs    == 2     \* logs per transaction event
ChanCap    == 2     \* capacity of the agentUpdates channel
MaxReaders == 1     \* in-flight readers registered on agentUpdatesWg
MaxReq     == 4     \* requests given to the agent, both pipelines together
MaxDigits  == 3     \* characters of a block number string

(***************************************************************************)
(* Program constants                                                       *)
(***************************************************************************)
MaxFetchAttempts == 10          \* makeAgentConfig: for i := 0; i < 10; i++
DefaultBufferSize == 100        \* capacity of evalTxCh and of evalBlockCh
ErrThreshold == 3               \* NewErrorCounter(3, isCriticalErr)

poolID == "P"                   \* rs.poolID
Pools == {"P", "Q"}
AgentIDs == {"A", "B"}
Ref == "Qm1"                    \* a non-empty ipfs reference
NoImage == ""                   \* zero value of AgentConfig.Image
Garbage == "garbage"            \* a fetched body that is not JSON
Images == {"img1", "img2"}      \* imageReference values a manifest may carry
ContainerRegistry == {"img1"}   \* rs.cfg.Registry.ContainerRegistry: the allow-list

\* how many calls of ipfsClient.Cat fail before one succeeds, for one event
FailureRuns == {0, MaxFetchAttempts - 1, MaxFetchAttempts}

(***************************************************************************)
(* Inputs: the logs of transaction events, as the log unpacker sees them.  *)
(* kind "None" is a log none of the three Unpack calls accepts.            *)
(***************************************************************************)
NoneLog == [kind |-> "None", pool |-> "Q", agent |-> "A", ref |-> ""]

LogSet ==
    {NoneLog}
    \cup [kind : {"AgentAdded", "AgentUpdated"}, pool : {poolID}, agent : AgentIDs, ref : {Ref}]
    \cup [kind : {"AgentRemoved"}, pool : {poolID}, agent : AgentIDs, ref : {""}]
    \cup [kind : {"AgentAdded", "AgentUpdated"}, pool : Pools \ {poolID}, agent : {"A"}, ref : {Ref}]
    \cup [kind : {"AgentRemoved"}, pool : Pools \ {poolID}, agent : {"A"}, ref : {""}]

(***************************************************************************)
(* Event detection: detectAgentEvents, sendAgentUpdate, makeAgentConfig    *)
(***************************************************************************)
\* err == nil of the three Unpack calls of the log unpacker
UnpackAgentRegistryAgentAdded(log)   == log.kind = "AgentAdded"
UnpackAgentRegistryAgentUpdated(log) == log.kind = "AgentUpdated"
UnpackAgentRegistryAgentRemoved(log) == log.kind = "AgentRemoved"

\* mutant: the pool identifier of the event is not compared
PoolMatchesAny(log) == TRUE

\* the negation of `(common.Hash)(evt.PoolId).String() != rs.poolID.String()`
PoolMatches(log) == log.pool = poolID

\* One round of the loop of detectAgentEvents over evt.Receipt.Logs: "send" when
\* the round ends in `return rs.sendAgentUpdate(...)`, "continue" when the loop
\* goes on to the next log.
logVerdict(log) ==
    IF UnpackAgentRegistryAgentAdded(log)
    THEN IF ~PoolMatches(log) THEN "continue" ELSE "send"
    ELSE IF UnpackAgentRegistryAgentUpdated(log)
    THEN IF ~PoolMatches(log) THEN "continue" ELSE "send"
    ELSE IF UnpackAgentRegistryAgentRemoved(log)
    THEN IF ~PoolMatches(log) THEN "continue" ELSE "send"
    ELSE "continue"

NoConfig == [ID |-> "", Image |-> NoImage]    \* zero value of config.AgentConfig

\* mutant: the literal of the removal branch sets no flag
newAgentUpdateUntagged(evt) ==
    [IsCreation |-> evt.kind = "AgentAdded",
     IsUpdate   |-> evt.kind = "AgentUpdated",
     IsRemoval  |-> FALSE,
     Config     |-> NoConfig]

\* the &agentUpdate{...} literal detectAgentEvents builds for the event
newAgentUpdate(evt) ==
    [IsCreation |-> evt.kind = "AgentAdded",
     IsUpdate   |-> evt.kind = "AgentUpdated",
     IsRemoval  |-> evt.kind = "AgentRemoved",
     Config     |-> NoConfig]

\* the ref argument detectAgentEvents passes to sendAgentUpdate
refArg(evt) == IF evt.kind = "AgentRemoved" THEN "" ELSE evt.ref

\* utils.ValidateImageRef: the image value is kept whether or not it is allowed
ValidateImageRef(registry, ref) == [image |-> ref, ok |-> ref \in registry]

\* mutant: the loop bound is off by one, i <= 10
fetchAgainOffByOne(i) == i <= MaxFetchAttempts

\* the condition of the fetch loop: i < 10
fetchAgain(i) == i < MaxFetchAttempts

\* `for i := 0; i < 10; i++ { r, err = Cat(...); if err == nil { break } }` when
\* the first `fails` calls of Cat fail: the calls made, and whether err is left set
RECURSIVE fetchLoop(_, _)
fetchLoop(i, fails) ==
    IF fetchAgain(i)
    THEN IF i >= fails                       \* this call succeeds: break
         THEN [calls |-> i + 1, err |-> FALSE]
         ELSE fetchLoop(i + 1, fails)
    ELSE [calls |-> i, err |-> TRUE]

\* history: the log decodes as an event of another pool
IsForeign(log) == log.kind # "None" /\ log.pool # poolID

\* detectAgentEvents returns: the locals of makeAgentConfig are gone
ReturnLocals ==
    /\ agentCfg' = NoConfig
    /\ logIdx' = 0

consumerVars == <<agentsConfigs, agentUpdatesWg, consumerPc, update, prevConfigs,
                  published, pubCount, handled>>

\* detectAgentEvents(evt) is called with the next transaction event
detectAgentEvents ==
    /\ detPc = "idle"
    /\ consumerPc # "panic"
    /\ detCount < MaxEvents
    /\ detCount' = detCount + 1
    /\ detPc' = "scan"
    /\ logIdx' = 0
    /\ evtForeign' = FALSE
    /\ det' = NoneLog
    /\ fetched' = FALSE
    /\ catCalls' = 0
    /\ detErr' = "nil"
    /\ unread' = NoneLog
    /\ UNCHANGED agentCfg
    /\ UNCHANGED <<consumerVars, agentUpdates>>
    /\ UNCHANGED <<agentVars, filterVars>>

\* one round of `for _, logEntry := range evt.Receipt.Logs` on the next log of the
\* event, up to the first ipfs call of makeAgentConfig (or up to the channel send
\* when the reference is empty)
scanLog(log) ==
    /\ detPc = "scan"
    /\ consumerPc # "panic"
    /\ logIdx < MaxLogs
    /\ logIdx' = logIdx + 1
    /\ IF logVerdict(log) = "continue"
       THEN /\ detPc' = "scan"
            /\ evtForeign' = (evtForeign \/ IsForeign(log))
            /\ UNCHANGED <<det, agentCfg>>
       ELSE /\ det' = log
            /\ evtForeign' = FALSE
            /\ agentCfg' = [ID |-> log.agent, Image |-> NoImage]
            /\ detPc' = IF Len(refArg(log)) = 0 THEN "send" ELSE "fetch"
    /\ UNCHANGED <<detErr, catCalls, fetched, detCount, unread>>
    /\ UNCHANGED <<consumerVars, agentUpdates>>
    /\ UNCHANGED <<agentVars, filterVars>>

\* the event has no further log: the loop ends and detectAgentEvents returns nil
scanEnd ==
    /\ detPc = "scan"
    /\ consumerPc # "panic"
    /\ detPc' = "idle"
    /\ detErr' = "nil"
    /\ logIdx' = 0
    /\ UNCHANGED <<det, agentCfg, catCalls, fetched, detCount, evtForeign, unread>>
    /\ UNCHANGED <<consumerVars, agentUpdates>>
    /\ UNCHANGED <<agentVars, filterVars>>

\* makeAgentConfig from its fetch loop on, for a non-empty reference: the first
\* `fails` calls of rs.ipfsClient.Cat fail, and body is what a call that succeeds
\* hands back
makeAgentConfig(fails, body) ==
    /\ detPc = "fetch"
    /\ consumerPc # "panic"
    /\ LET r == fetchLoop(0, fails) IN
       /\ catCalls' = r.calls
       /\ fetched' = ~r.err
       /\ IF r.err
          THEN /\ detPc' = "idle"
               /\ detErr' = "fetch"
               /\ ReturnLocals
          ELSE IF body = Garbage
          THEN /\ detPc' = "idle"
               /\ detErr' = "decode"
               /\ ReturnLocals
          ELSE /\ agentCfg' = [agentCfg EXCEPT
                                 !.Image = ValidateImageRef(ContainerRegistry, body).image]
               /\ detPc' = "send"
               /\ UNCHANGED <<detErr, logIdx>>
    /\ UNCHANGED <<consumerVars, agentUpdates, det, detCount, evtForeign, unread>>
    /\ UNCHANGED <<agentVars, filterVars>>

\* sendAgentUpdate after makeAgentConfig returned without error:
\* update.Config = agentCfg ; rs.agentUpdates <- update (blocks while full), and
\* the `return` of detectAgentEvents that follows.  next is the log that follows
\* in evt.Receipt.Logs (NoneLog when the one in hand was the last)
sendAgentUpdate(next) ==
    /\ detPc = "send"
    /\ (logIdx = MaxLogs => next = NoneLog)
    /\ unread' = IF logVerdict(next) = "send" THEN next ELSE NoneLog
    /\ consumerPc # "panic"
    /\ Len(agentUpdates) < ChanCap
    /\ agentUpdates' = Append(agentUpdates, [newAgentUpdate(det) EXCEPT !.Config = agentCfg])
    /\ detPc' = "idle"
    /\ detErr' = "nil"
    /\ ReturnLocals
    /\ UNCHANGED <<consumerVars, det, catCalls, fetched, detCount, evtForeign>>
    /\ UNCHANGED <<agentVars, filterVars>>

(***************************************************************************)
(* Reconciliation: listenToAgentUpdates, handleAgentUpdate                 *)
(***************************************************************************)
HasID(configs, id) == \E k \in 1..Len(configs) : configs[k].ID = id

\* mutant: creation appends without looking for the ID
handleCreationNoCheck(configs, cfg) == Append(configs, cfg)

\* mutant: creation for an ID in the roster overwrites the entry
handleCreationOverwrite(configs, cfg) ==
    IF HasID(configs, cfg.ID)
    THEN [k \in 1..Len(configs) |-> IF configs[k].ID = cfg.ID THEN cfg ELSE configs[k]]
    ELSE Append(configs, cfg)

\* case update.IsCreation: skip if we already have this agent, else append
handleCreation(configs, cfg) ==
    IF HasID(configs, cfg.ID) THEN configs ELSE Append(configs, cfg)

\* mutant: an update for an absent ID creates the entry
handleUpdateUpsert(configs, cfg) ==
    IF HasID(configs, cfg.ID) THEN configs ELSE Append(configs, cfg)

\* case update.IsUpdate: `for _, agent := range rs.agentsConfigs` hands the body a
\* copy of each element; `agent.Image = update.Config.Image` writes the copy of the
\* first element with the ID and returns.  No element of the slice is written.
handleUpdate(configs, cfg) ==
    LET agent(k) == [configs[k] EXCEPT !.Image = cfg.Image]   \* the loop's copy
    IN  configs

\* mutant: removal drops the first entry, whatever its ID
handleRemovalFirst(configs, cfg) ==
    IF configs = <<>> THEN configs ELSE Tail(configs)

\* case update.IsRemoval: keep the entries whose ID differs, in order
handleRemoval(configs, cfg) ==
    SelectSeq(configs, LAMBDA agent : agent.ID # cfg.ID)

\* the switch of handleAgentUpdate: the roster it leaves, and whether it panicked
handleAgentUpdate(configs, u) ==
    IF u.IsCreation THEN [configs |-> handleCreation(configs, u.Config), panic |-> FALSE]
    ELSE IF u.IsUpdate THEN [configs |-> handleUpdate(configs, u.Config), panic |-> FALSE]
    ELSE IF u.IsRemoval THEN [configs |-> handleRemoval(configs, u.Config), panic |-> FALSE]
    ELSE [configs |-> configs, panic |-> TRUE]

\* mutant: the broadcast carries the roster as it was before the update
latestPayloadStale(configs, before) == before

\* the payload of msgClient.Publish(SubjectAgentsVersionsLatest, rs.agentsConfigs)
latestPayload(configs, before) == configs

NoUpdate == [IsCreation |-> FALSE, IsUpdate |-> FALSE, IsRemoval |-> FALSE,
             Config |-> NoConfig]

detectVars == <<detPc, logIdx, det, agentCfg, detErr, catCalls, fetched, detCount, evtForeign,
                unread>>

\* mutant: the consumer takes the update enqueued last
listenRecvNewest ==
    /\ consumerPc = "recv"
    /\ agentUpdates # <<>>
    /\ update' = agentUpdates[Len(agentUpdates)]
    /\ agentUpdates' = SubSeq(agentUpdates, 1, Len(agentUpdates) - 1)
    /\ consumerPc' = "wait"
    /\ UNCHANGED <<agentsConfigs, agentUpdatesWg, prevConfigs, published, pubCount,
                   handled, detectVars>>
    /\ UNCHANGED <<agentVars, filterVars>>

\* `for update := range rs.agentUpdates`: receive the next update
listenRecv ==
    /\ consumerPc = "recv"
    /\ agentUpdates # <<>>
    /\ update' = Head(agentUpdates)
    /\ agentUpdates' = Tail(agentUpdates)
    /\ consumerPc' = "wait"
    /\ UNCHANGED <<agentsConfigs, agentUpdatesWg, prevConfigs, published, pubCount,
                   handled, detectVars>>
    /\ UNCHANGED <<agentVars, filterVars>>

\* rs.agentUpdatesWg.Wait() returns ; rs.handleAgentUpdate(update)
listenHandle ==
    /\ consumerPc = "wait"
    /\ agentUpdatesWg = 0
    /\ prevConfigs' = agentsConfigs
    /\ LET r == handleAgentUpdate(agentsConfigs, update) IN
       IF r.panic
       THEN /\ consumerPc' = "panic"
            /\ UNCHANGED <<agentsConfigs, handled>>
       ELSE /\ consumerPc' = "publish"
            /\ agentsConfigs' = r.configs
            /\ handled' = handled + 1
    /\ UNCHANGED <<agentUpdates, agentUpdatesWg, update, published, pubCount, detectVars>>
    /\ UNCHANGED <<agentVars, filterVars>>

\* mutant: the roster is broadcast only when the update changed it
listenPublishOnChange ==
    /\ consumerPc = "publish"
    /\ IF agentsConfigs # prevConfigs
       THEN published' = agentsConfigs /\ pubCount' = pubCount + 1
       ELSE UNCHANGED <<published, pubCount>>
    /\ consumerPc' = "recv"
    /\ update' = NoUpdate
    /\ prevConfigs' = agentsConfigs
    /\ UNCHANGED <<agentsConfigs, agentUpdates, agentUpdatesWg, handled, detectVars>>
    /\ UNCHANGED <<agentVars, filterVars>>

\* rs.msgClient.Publish(messaging.SubjectAgentsVersionsLatest, rs.agentsConfigs)
listenPublish ==
    /\ consumerPc = "publish"
    /\ published' = latestPayload(agentsConfigs, prevConfigs)
    /\ pubCount' = pubCount + 1
    /\ consumerPc' = "recv"
    /\ update' = NoUpdate
    /\ prevConfigs' = agentsConfigs
    /\ UNCHANGED <<agentsConfigs, agentUpdates, agentUpdatesWg, handled, detectVars>>
    /\ UNCHANGED <<agentVars, filterVars>>

\* a reader of the roster registers on the wait group, and leaves it
wgAdd ==
    /\ consumerPc # "panic"
    /\ agentUpdatesWg < MaxReaders
    /\ agentUpdatesWg' = agentUpdatesWg + 1
    /\ UNCHANGED <<agentsConfigs, agentUpdates, consumerPc, update, prevConfigs,
                   published, pubCount, handled, detectVars>>
    /\ UNCHANGED <<agentVars, filterVars>>

wgDone ==
    /\ agentUpdatesWg > 0
    /\ agentUpdatesWg' = agentUpdatesWg - 1
    /\ UNCHANGED <<agentsConfigs, agentUpdates, consumerPc, update, prevConfigs,
                   published, pubCount, handled, detectVars>>
    /\ UNCHANGED <<agentVars, filterVars>>

(***************************************************************************)
(* Agent Worker: NewAgent, processTransactions, processBlocks, Close       *)
(***************************************************************************)
config == [ID |-> "A", Image |-> "img1"]       \* agent.config

Nil == "nil"                                    \* err == nil
Errs == {"DeadlineExceeded", "Unavailable", "InvalidArgument"}   \* codes of the errors
Outcomes == {Nil} \cup Errs                     \* what an Evaluate call may return

\* strings.Contains(errStr, codes.DeadlineExceeded.String()) ||
\* strings.Contains(errStr, codes.Unavailable.String())
isCriticalErr(err) == err \in {"DeadlineExceeded", "Unavailable"}

\* errorCounter: the count after it has been told of err
errCounterCount(count, err) == IF isCriticalErr(err) THEN count + 1 ELSE 0

\* errorCounter.TooManyErrs(err): the threshold is reached
TooManyErrs(count, err) == errCounterCount(count, err) >= ErrThreshold

\* agent.config.ImageHash()
ImageHash(cfg) == <<"hash", cfg.Image>>

\* &scanner.TxResult{...} / &scanner.BlockResult{...} with the tagged response
resultEnvelope(request) ==
    [AgentConfig |-> config, Request |-> request,
     Response |-> [Metadata |-> [imageHash |-> ImageHash(config)]]]

\* messaging.AgentPayload{agent.config}; `by` is history: the publishing pipeline
stopMessage(by) == [payload |-> config, by |-> by]

txVars    == <<evalTxCh, txPc, txRequest, txResults, txHist, txSent, txEvaluated>>
blockVars == <<evalBlockCh, blockPc, blockRequest, blockResults, blockHist, blockSent,
               blockEvaluated>>

\* a producer sends a transaction request: agent.evalTxCh <- request
sendEvalTx ==
    /\ ~chClosed
    /\ nextReq <= MaxReq
    /\ Len(evalTxCh) < DefaultBufferSize
    /\ evalTxCh' = Append(evalTxCh, nextReq)
    /\ txSent' = Append(txSent, nextReq)
    /\ nextReq' = nextReq + 1
    /\ UNCHANGED <<txPc, txRequest, txResults, txHist, txEvaluated, blockVars, chClosed,
                   errCount, stopMsgs>>
    /\ UNCHANGED <<registryVars, filterVars>>

\* a producer sends a block request: agent.evalBlockCh <- request
sendEvalBlock ==
    /\ ~chClosed
    /\ nextReq <= MaxReq
    /\ Len(evalBlockCh) < DefaultBufferSize
    /\ evalBlockCh' = Append(evalBlockCh, nextReq)
    /\ blockSent' = Append(blockSent, nextReq)
    /\ nextReq' = nextReq + 1
    /\ UNCHANGED <<blockPc, blockRequest, blockResults, blockHist, blockEvaluated, txVars,
                   chClosed, errCount, stopMsgs>>
    /\ UNCHANGED <<registryVars, filterVars>>

\* mutant: the loop takes the request enqueued last
processTransactionsRecvNewest ==
    /\ txPc = "recv"
    /\ evalTxCh # <<>>
    /\ txRequest' = evalTxCh[Len(evalTxCh)]
    /\ evalTxCh' = SubSeq(evalTxCh, 1, Len(evalTxCh) - 1)
    /\ txPc' = "eval"
    /\ UNCHANGED <<txResults, txHist, txSent, txEvaluated, blockVars, chClosed, errCount,
                   stopMsgs, nextReq>>
    /\ UNCHANGED <<registryVars, filterVars>>

\* `for request := range agent.evalTxCh`: the next request is received
processTransactionsRecv ==
    /\ txPc = "recv"
    /\ evalTxCh # <<>>
    /\ txRequest' = Head(evalTxCh)
    /\ evalTxCh' = Tail(evalTxCh)
    /\ txPc' = "eval"
    /\ UNCHANGED <<txResults, txHist, txSent, txEvaluated, blockVars, chClosed, errCount,
                   stopMsgs, nextReq>>
    /\ UNCHANGED <<registryVars, filterVars>>

\* mutant: the loop goes on after the stop message
processTransactionsEvalNoReturn(err) ==
    /\ txPc = "eval"
    /\ txHist' = Append(txHist, err)
    /\ txEvaluated' = Append(txEvaluated, txRequest)
    /\ txRequest' = 0
    /\ txPc' = "recv"
    /\ IF err = Nil
       THEN /\ txResults' = Append(txResults, resultEnvelope(txRequest))
            /\ UNCHANGED <<errCount, stopMsgs>>
       ELSE /\ errCount' = errCounterCount(errCount, err)
            /\ txResults' = txResults
            /\ stopMsgs' = IF TooManyErrs(errCount, err)
                           THEN Append(stopMsgs, stopMessage("tx")) ELSE stopMsgs
    /\ UNCHANGED <<evalTxCh, txSent, blockVars, chClosed, nextReq>>
    /\ UNCHANGED <<registryVars, filterVars>>

\* agent.client.EvaluateTx returns err (a timeout of the 5s context is
\* DeadlineExceeded), and the rest of the loop body
processTransactionsEval(err) ==
    /\ txPc = "eval"
    /\ txHist' = Append(txHist, err)
    /\ txEvaluated' = Append(txEvaluated, txRequest)
    /\ txRequest' = 0
    /\ IF err = Nil
       THEN /\ txResults' = Append(txResults, resultEnvelope(txRequest))
            /\ txPc' = "recv"
            /\ UNCHANGED <<errCount, stopMsgs>>
       ELSE /\ errCount' = errCounterCount(errCount, err)
            /\ txResults' = txResults
            /\ IF TooManyErrs(errCount, err)
               THEN /\ stopMsgs' = Append(stopMsgs, stopMessage("tx"))
                    /\ txPc' = "stopped"
               ELSE /\ stopMsgs' = stopMsgs
                    /\ txPc' = "recv"
    /\ UNCHANGED <<evalTxCh, txSent, blockVars, chClosed, nextReq>>
    /\ UNCHANGED <<registryVars, filterVars>>

\* mutant: the range loop ends as soon as the channel is closed
processTransactionsExitUndrained ==
    /\ txPc = "recv"
    /\ chClosed
    /\ txPc' = "done"
    /\ UNCHANGED <<evalTxCh, txRequest, txResults, txHist, txSent, txEvaluated, blockVars,
                   chClosed, errCount, stopMsgs, nextReq>>
    /\ UNCHANGED <<registryVars, filterVars>>

\* the range loop of processTransactions ends: the channel is closed and empty
processTransactionsExit ==
    /\ txPc = "recv"
    /\ chClosed
    /\ evalTxCh = <<>>
    /\ txPc' = "done"
    /\ UNCHANGED <<evalTxCh, txRequest, txResults, txHist, txSent, txEvaluated, blockVars,
                   chClosed, errCount, stopMsgs, nextReq>>
    /\ UNCHANGED <<registryVars, filterVars>>

\* `for request := range agent.evalBlockCh`: the next request is received
processBlocksRecv ==
    /\ blockPc = "recv"
    /\ evalBlockCh # <<>>
    /\ blockRequest' = Head(evalBlockCh)
    /\ evalBlockCh' = Tail(evalBlockCh)
    /\ blockPc' = "eval"
    /\ UNCHANGED <<blockResults, blockHist, blockSent, blockEvaluated, txVars, chClosed,
                   errCount, stopMsgs, nextReq>>
    /\ UNCHANGED <<registryVars, filterVars>>

\* agent.client.EvaluateBlock returns err, and the rest of the loop body
processBlocksEval(err) ==
    /\ blockPc = "eval"
    /\ blockHist' = Append(blockHist, err)
    /\ blockEvaluated' = Append(blockEvaluated, blockRequest)
    /\ blockRequest' = 0
    /\ IF err = Nil
       THEN /\ blockResults' = Append(blockResults, resultEnvelope(blockRequest))
            /\ blockPc' = "recv"
            /\ UNCHANGED <<errCount, stopMsgs>>
       ELSE /\ errCount' = errCounterCount(errCount, err)
            /\ blockResults' = blockResults
            /\ IF TooManyErrs(errCount, err)
               THEN /\ stopMsgs' = Append(stopMsgs, stopMessage("block"))
                    /\ blockPc' = "stopped"
               ELSE /\ stopMsgs' = stopMsgs
                    /\ blockPc' = "recv"
    /\ UNCHANGED <<evalBlockCh, blockSent, txVars, chClosed, nextReq>>
    /\ UNCHANGED <<registryVars, filterVars>>

\* the range loop of processBlocks ends: the channel is closed and empty
processBlocksExit ==
    /\ blockPc = "recv"
    /\ chClosed
    /\ evalBlockCh = <<>>
    /\ blockPc' = "done"
    /\ UNCHANGED <<evalBlockCh, blockRequest, blockResults, blockHist, blockSent,
                   blockEvaluated, txVars, chClosed, errCount, stopMsgs, nextReq>>
    /\ UNCHANGED <<registryVars, filterVars>>

\* Close: close(agent.evalTxCh) ; close(agent.evalBlockCh) ; agent.client.Close()
Close ==
    /\ ~chClosed
    /\ chClosed' = TRUE
    /\ UNCHANGED <<txVars, blockVars, errCount, stopMsgs, nextReq>>
    /\ UNCHANGED <<registryVars, filterVars>>

(***************************************************************************)
(* Agent Worker: shouldProcessBlock                                        *)
(***************************************************************************)
NilBlock == -1                          \* a nil *uint64 of the agent config
BlockBounds == {NilBlock, 0, 100, 200}  \* values of StartBlock and of StopBlock
DigitChars == <<"0", "1", "2", "3", "4", "5", "6", "7", "8", "9">>
Chars == {DigitChars[k] : k \in 1..10} \cup {"x"}    \* "x": a character that is no digit

\* the block number strings: up to MaxDigits characters
BlockNumbers == UNION {[1..n -> Chars] : n \in 0..MaxDigits}

DigitVal(c) == (CHOOSE k \in 1..10 : DigitChars[k] = c) - 1

\* the value strconv.ParseUint(s, 10, 64) returns next to its error: the decimal
\* value of a string of digits, 0 for the empty string and for a string with a
\* character that is no digit.  (A string of MaxDigits digits is below 2^64.)
RECURSIVE DecimalValue(_)
DecimalValue(s) ==
    IF s = <<>> THEN 0
    ELSE 10 * DecimalValue(SubSeq(s, 1, Len(s) - 1)) + DigitVal(s[Len(s)])

ParseUint(s) ==
    IF s = <<>> \/ (\E k \in 1..Len(s) : s[k] = "x") THEN 0 ELSE DecimalValue(s)

\* mutant: the comparisons the names of the two locals announce
shouldProcessBlockAtLeastAtMost(start, stop, s) ==
    LET n == ParseUint(s)
        isAtLeastStartBlock == IF start # NilBlock THEN n >= start ELSE TRUE
        isAtMostStopBlock == IF stop # NilBlock THEN n <= stop ELSE TRUE
    IN  isAtLeastStartBlock /\ isAtMostStopBlock

\* shouldProcessBlock: n, _ := strconv.ParseUint(blockNumber, 10, 64) ;
\* *StartBlock >= n ; *StopBlock <= n
shouldProcessBlock(start, stop, s) ==
    LET n == ParseUint(s)
        isAtLeastStartBlock == IF start # NilBlock THEN start >= n ELSE TRUE
        isAtMostStopBlock == IF stop # NilBlock THEN stop <= n ELSE TRUE
    IN  isAtLeastStartBlock /\ isAtMostStopBlock

\* agent.shouldProcessBlock(blockNumber) is called and returns
callShouldProcessBlock ==
    /\ ~filterCalled
    /\ processBlock' = shouldProcessBlock(StartBlock, StopBlock, blockNumber)
    /\ filterCalled' = TRUE
    /\ UNCHANGED <<StartBlock, StopBlock, blockNumber>>
    /\ UNCHANGED <<registryVars, agentVars>>

\* the agent of the two pipelines has neither bound; no call was made
NoFilter ==
    /\ StartBlock = NilBlock
    /\ StopBlock = NilBlock
    /\ blockNumber = <<>>
    /\ processBlock = FALSE
    /\ filterCalled = FALSE

\* an agent config with any of the StartBlock and StopBlock values, and any block
\* number string for the call
FilterInputs ==
    /\ StartBlock \in BlockBounds
    /\ StopBlock \in BlockBounds
    /\ blockNumber \in BlockNumbers
    /\ processBlock = FALSE
    /\ filterCalled = FALSE

FilterNext == callShouldProcessBlock

\* NewAgent: empty channels, a fresh error counter; the two pipelines started
AgentInit ==
    /\ evalTxCh = <<>>
    /\ evalBlockCh = <<>>
    /\ chClosed = FALSE
    /\ txPc = "recv"
    /\ blockPc = "recv"
    /\ txRequest = 0
    /\ blockRequest = 0
    /\ errCount = 0
    /\ stopMsgs = <<>>
    /\ txResults = <<>>
    /\ blockResults = <<>>
    /\ txHist = <<>>
    /\ blockHist = <<>>
    /\ txSent = <<>>
    /\ blockSent = <<>>
    /\ txEvaluated = <<>>
    /\ blockEvaluated = <<>>
    /\ nextReq = 1

AgentNext ==
    \/ sendEvalTx
    \/ sendEvalBlock
    \/ processTransactionsRecv
    \/ \E err \in Outcomes : processTransactionsEval(err)
    \/ processTransactionsExit
    \/ processBlocksRecv
    \/ \E err \in Outcomes : processBlocksEval(err)
    \/ processBlocksExit
    \/ Close

RegistryInit ==
    /\ agentsConfigs = <<>>
    /\ agentUpdates = <<>>
    /\ agentUpdatesWg = 0
    /\ consumerPc = "recv"
    /\ update = NoUpdate
    /\ prevConfigs = <<>>
    /\ published = <<>>
    /\ pubCount = 0
    /\ handled = 0
    /\ detPc = "idle"
    /\ logIdx = 0
    /\ det = NoneLog
    /\ agentCfg = NoConfig
    /\ detErr = "nil"
    /\ catCalls = 0
    /\ fetched = FALSE
    /\ detCount = 0
    /\ evtForeign = FALSE
    /\ unread = NoneLog

Init == RegistryInit /\ AgentInit /\ NoFilter

RegistryNext ==
    \/ detectAgentEvents
    \/ \E log \in LogSet : scanLog(log)
    \/ scanEnd
    \/ \E fails \in FailureRuns, body \in {Garbage} \cup Images : makeAgentConfig(fails, body)
    \/ \E next \in LogSet : sendAgentUpdate(next)
    \/ listenRecv
    \/ listenHandle
    \/ listenPublish
    \/ wgAdd
    \/ wgDone

RegistrySpec == Init /\ [][RegistryNext]_vars

AgentSpec == Init /\ [][AgentNext]_vars

\* the outcomes of an Evaluate call in the runs checked for termination: success,
\* a critical error and an error that is not critical
CloseOutcomes == {Nil, "DeadlineExceeded", "InvalidArgument"}

\* the next step of the goroutine processTransactions, of the goroutine processBlocks
processTransactions ==
    \/ processTransactionsRecv
    \/ \E err \in CloseOutcomes : processTransactionsEval(err)
    \/ processTransactionsExit

processBlocks ==
    \/ processBlocksRecv
    \/ \E err \in CloseOutcomes : processBlocksEval(err)
    \/ processBlocksExit

AgentCloseNext ==
    \/ sendEvalTx
    \/ sendEvalBlock
    \/ processTransactions
    \/ processBlocks
    \/ Close

\* the requests numbered from..to, in order
RECURSIVE Requests(_, _)
Requests(from, to) == IF from > to THEN <<>> ELSE <<from>> \o Requests(from + 1, to)

\* a producer keeps sending to the transaction pipeline after it has stopped,
\* until its next `agent.evalTxCh <- request` blocks: the channel is full
keepSendingTx ==
    /\ ~chClosed
    /\ txPc = "stopped"
    /\ Len(evalTxCh) < DefaultBufferSize
    /\ LET more == Requests(nextReq, nextReq + DefaultBufferSize - Len(evalTxCh) - 1) IN
       /\ evalTxCh' = evalTxCh \o more
       /\ txSent' = txSent \o more
       /\ nextReq' = nextReq + Len(more)
    /\ UNCHANGED <<txPc, txRequest, txResults, txHist, txEvaluated, blockVars, chClosed,
                   errCount, stopMsgs>>
    /\ UNCHANGED <<registryVars, filterVars>>

\* likewise to the block pipeline
keepSendingBlock ==
    /\ ~chClosed
    /\ blockPc = "stopped"
    /\ Len(evalBlockCh) < DefaultBufferSize
    /\ LET more == Requests(nextReq, nextReq + DefaultBufferSize - Len(evalBlockCh) - 1) IN
       /\ evalBlockCh' = evalBlockCh \o more
       /\ blockSent' = blockSent \o more
       /\ nextReq' = nextReq + Len(more)
    /\ UNCHANGED <<blockPc, blockRequest, blockResults, blockHist, blockEvaluated, txVars,
                   chClosed, errCount, stopMsgs>>
    /\ UNCHANGED <<registryVars, filterVars>>

BreachNext ==
    \/ AgentCloseNext
    \/ keepSendingTx
    \/ keepSendingBlock

BreachSpec == Init /\ [][BreachNext]_vars

\* the two pipeline goroutines keep being scheduled, every Evaluate call returns
\* (the 5s context bounds it) and the result channels take what is sent
AgentFairness == WF_vars(processTransactions) /\ WF_vars(processBlocks)

AgentFairSpec == Init /\ [][AgentCloseNext]_vars /\ AgentFairness

FilterInit == RegistryInit /\ AgentInit /\ FilterInputs

FilterSpec == FilterInit /\ [][FilterNext]_vars

(***************************************************************************)
(* Properties                                                              *)
(***************************************************************************)
\* the number of critical errors at the end of a pipeline's outcome history
RECURSIVE TrailingCritical(_)
TrailingCritical(h) ==
    IF h = <<>> \/ ~(h[Len(h)] \in {"DeadlineExceeded", "Unavailable"}) THEN 0
    ELSE 1 + TrailingCritical(SubSeq(h, 1, Len(h) - 1))

\* C1: once a pipeline has seen 3 consecutive critical errors, exactly one stop
\* message carrying the agent's config has been published for the agent, both
\* pipelines counted, and that pipeline has stopped for good with nothing in hand.
C1_ExactlyOneStop ==
    /\ TrailingCritical(txHist) >= ErrThreshold =>
          /\ Len(stopMsgs) = 1
          /\ stopMsgs[1].payload = config
          /\ txPc = "stopped"
    /\ TrailingCritical(blockHist) >= ErrThreshold =>
          /\ Len(stopMsgs) = 1
          /\ stopMsgs[1].payload = config
          /\ blockPc = "stopped"

\* C2: when only one pipeline has processed requests, it has published the stop
\* message only if its last 3 outcomes are critical errors, with no success and no
\* other error between them; so [critical, success, critical, critical] publishes
\* nothing.
C2_StopOnlyAfterThreeInARow ==
    /\ (blockHist = <<>> /\ txPc = "stopped") => TrailingCritical(txHist) >= ErrThreshold
    /\ (txHist = <<>> /\ blockPc = "stopped") => TrailingCritical(blockHist) >= ErrThreshold
    /\ (blockHist = <<>> /\ TrailingCritical(txHist) < ErrThreshold) => stopMsgs = <<>>
    /\ (txHist = <<>> /\ TrailingCritical(blockHist) < ErrThreshold) => stopMsgs = <<>>

\* the consumer has just applied `update`: the roster is agentsConfigs, and was
\* prevConfigs before
Applied == consumerPc = "publish"

ImageOf(configs, id) == {configs[k].Image : k \in {j \in 1..Len(configs) : configs[j].ID = id}}

\* C3: right after an update-type update for an ID that is in the roster has been
\* applied, the roster entry with that ID has the update's Image (and that roster
\* is what the broadcast that follows carries).
C3_UpdateOverwritesImage ==
    (Applied /\ update.IsUpdate /\ HasID(prevConfigs, update.Config.ID))
        => /\ ImageOf(agentsConfigs, update.Config.ID) = {update.Config.Image}
           /\ latestPayload(agentsConfigs, prevConfigs) = agentsConfigs

\* C4: the roster never holds two entries with the same agent ID.
C4_OneEntryPerID ==
    \A j, k \in 1..Len(agentsConfigs) :
        agentsConfigs[j].ID = agentsConfigs[k].ID => j = k

\* C4: a second creation update for the ID the roster holds has been applied
C4_Witness ==
    /\ Applied /\ update.IsCreation /\ handled = 2
    /\ HasID(prevConfigs, update.Config.ID)
    /\ Len(agentsConfigs) = 1

\* C5: a creation update for an ID already in the roster leaves the roster as it
\* was (length, order, Images); one for an absent ID appends exactly its entry.
C5_CreationIdempotent ==
    (Applied /\ update.IsCreation)
        => IF HasID(prevConfigs, update.Config.ID)
           THEN agentsConfigs = prevConfigs
           ELSE agentsConfigs = Append(prevConfigs, update.Config)

\* C5: a creation update was applied for an ID in the roster under another Image
C5_Witness ==
    /\ Applied /\ update.IsCreation
    /\ HasID(prevConfigs, update.Config.ID)
    /\ ImageOf(prevConfigs, update.Config.ID) # {update.Config.Image}

\* C6: an update-type update for an ID absent from the roster changes nothing.
C6_UpdateAbsentNoOp ==
    (Applied /\ update.IsUpdate /\ ~HasID(prevConfigs, update.Config.ID))
        => agentsConfigs = prevConfigs

\* C6: an update-type update was applied for an ID absent from a non-empty roster
C6_Witness ==
    /\ Applied /\ update.IsUpdate
    /\ ~HasID(prevConfigs, update.Config.ID)
    /\ prevConfigs # <<>>

\* C7: a removal update for an ID in the roster shortens the roster by exactly one
\* and leaves no entry with the ID; one for an absent ID leaves the entries as
\* they were.
C7_RemovalExact ==
    (Applied /\ update.IsRemoval)
        => IF HasID(prevConfigs, update.Config.ID)
           THEN /\ Len(agentsConfigs) = Len(prevConfigs) - 1
                /\ ~HasID(agentsConfigs, update.Config.ID)
           ELSE agentsConfigs = prevConfigs

\* C7: a removal update was applied for an ID in the roster
C7_Witness ==
    /\ Applied /\ update.IsRemoval
    /\ HasID(prevConfigs, update.Config.ID)
    /\ ~HasID(agentsConfigs, update.Config.ID)

\* nothing is in flight between the detector and the consumer
Quiet == detPc = "idle" /\ agentUpdates = <<>> /\ consumerPc = "recv"

\* the one event delivered so far was a creation for this pool whose fetch succeeded
SoleCreationFetched == detCount = 1 /\ det.kind = "AgentAdded" /\ fetched

\* the roster holds exactly the agent of the event, and was broadcast exactly once
SoleEntryBroadcastOnce ==
    /\ Len(agentsConfigs) = 1
    /\ agentsConfigs[1].ID = det.agent
    /\ agentsConfigs[1].Image \in Images
    /\ pubCount = 1
    /\ published = agentsConfigs

\* every applied update is broadcast before the next one is received, and a
\* broadcast carries the roster as the last applied update left it
BroadcastAfterEachApply ==
    /\ [](pubCount <= handled /\ handled <= pubCount + 1)
    /\ []((handled = pubCount + 1) <=> Applied)
    /\ []((pubCount > 0 /\ ~Applied) => published = agentsConfigs)
    /\ [][Len(agentUpdates') < Len(agentUpdates) => handled = pubCount]_vars
    /\ [][pubCount' # pubCount =>
            /\ Applied
            /\ pubCount' = pubCount + 1
            /\ published' = agentsConfigs
            /\ agentsConfigs' = agentsConfigs]_vars

\* C8 (as stated): the consumer broadcasts the whole roster after each applied
\* update and before it receives the next one, each broadcast carrying the roster
\* as the last applied update left it; and after a single creation event for this
\* pool whose manifest fetch succeeded, once nothing is in flight, the roster
\* holds exactly that agent and exactly one broadcast was made.
C8_Original ==
    /\ BroadcastAfterEachApply
    /\ []((Quiet /\ SoleCreationFetched) => SoleEntryBroadcastOnce)

\* C8 (amended): the same, for a single creation event whose manifest fetch
\* succeeded and whose fetched manifest decoded.
C8_BroadcastAfterApply ==
    /\ BroadcastAfterEachApply
    /\ []((Quiet /\ SoleCreationFetched /\ detErr = "nil") => SoleEntryBroadcastOnce)
    /\ []((SoleCreationFetched /\ detErr = "nil") => pubCount <= 1)

\* C8: a single creation event was resolved, applied and broadcast
C8_Witness == Quiet /\ SoleCreationFetched /\ detErr = "nil" /\ pubCount = 1

\* C9: resolving an event with a non-empty reference makes at most 10 fetch
\* attempts, the last of them the first that succeeds; when all 10 fail the
\* handler returns the fetch error, nothing is enqueued, the roster, the
\* broadcasts and the consumer are untouched, and the consumer has not stopped.
C9_FetchAtMostTenTimes ==
    /\ [](catCalls <= MaxFetchAttempts)
    /\ [](detPc = "fetch" => (catCalls = 0 /\ ~fetched /\ Len(det.ref) > 0))
    /\ [](detPc = "send" /\ Len(refArg(det)) > 0 => (fetched /\ catCalls >= 1))
    /\ []((detPc = "idle" /\ detErr = "fetch") => (catCalls = MaxFetchAttempts /\ ~fetched))
    /\ [](consumerPc \in {"recv", "wait", "publish"})
    /\ [][(detPc = "fetch" /\ ~fetched' /\ detPc' # "fetch") =>
            /\ catCalls' = MaxFetchAttempts
            /\ detPc' = "idle"
            /\ detErr' = "fetch"
            /\ UNCHANGED <<agentUpdates, consumerVars>>]_vars

\* C9: the handler has returned the fetch error after its 10th failed attempt
C9_Witness ==
    /\ detPc = "idle" /\ detErr = "fetch" /\ catCalls = MaxFetchAttempts
    /\ det.kind \in {"AgentAdded", "AgentUpdated"}

\* C10: the handler never takes in hand an event of another pool, fetches and
\* enqueues only for the event it has in hand, and while the decodable logs it
\* has read of a transaction are all of another pool its steps leave the channel,
\* the roster and the broadcasts as they were, with no fetch begun.
C10_ForeignPoolIgnored ==
    /\ [](det.kind # "None" => det.pool = poolID)
    /\ [][(catCalls' > catCalls \/ Len(agentUpdates') > Len(agentUpdates)) =>
            (det.kind # "None" /\ det.pool = poolID)]_vars
    /\ [][(evtForeign' /\ detectVars' # detectVars) =>
            /\ detPc' \in {"scan", "idle"}
            /\ catCalls' = 0
            /\ UNCHANGED <<agentUpdates, consumerVars>>]_vars

\* C10: a transaction whose decodable logs are all of another pool has been handled
C10_Witness == evtForeign /\ detCount > 0 /\ detPc = "idle"

\* the height the call of shouldProcessBlock parsed
Height == ParseUint(blockNumber)

\* C11: with StartBlock=100 and StopBlock=200 a call returns true for every height
\* in 100..200 and false for 99 and 201; with both bounds unset every call returns
\* true.
C11_InclusiveWindow ==
    /\ (filterCalled /\ StartBlock = 100 /\ StopBlock = 200 /\ Height \in 99..201)
          => (processBlock <=> Height \in 100..200)
    /\ (filterCalled /\ StartBlock = NilBlock /\ StopBlock = NilBlock) => processBlock

\* C17: a call returns true iff (StartBlock is unset or h <= StartBlock) and
\* (StopBlock is unset or StopBlock <= h), h the height parsed from its argument.
C17_ShouldProcessBlockIff ==
    filterCalled =>
        (processBlock <=> /\ (StartBlock = NilBlock \/ Height <= StartBlock)
                          /\ (StopBlock = NilBlock \/ StopBlock <= Height))

\* C17: a call with both bounds set, to different values, has returned true
C17_Witness ==
    /\ filterCalled /\ processBlock
    /\ StartBlock # NilBlock /\ StopBlock # NilBlock /\ StartBlock # StopBlock
    /\ Height > 0

\* a pipeline task has returned: its range loop ended, or the breaker tripped
Returned(pc) == pc \in {"done", "stopped"}

BothReturnAfterClose == chClosed ~> (Returned(txPc) /\ Returned(blockPc))

\* C12 (as stated): after Close both pipeline tasks eventually terminate, and a
\* pipeline that has terminated after Close has dequeued and evaluated every
\* request that was enqueued to it.
C12_Original ==
    /\ BothReturnAfterClose
    /\ []((chClosed /\ Returned(txPc)) => (evalTxCh = <<>> /\ txEvaluated = txSent))
    /\ []((chClosed /\ Returned(blockPc)) =>
            (evalBlockCh = <<>> /\ blockEvaluated = blockSent))

\* C12 (amended): after Close both pipeline tasks eventually terminate, and a
\* pipeline whose loop ended (it did not stop on a threshold breach) has dequeued
\* and evaluated every request that was enqueued to it, Close having been called.
C12_CloseDrains ==
    /\ BothReturnAfterClose
    /\ [](txPc = "done" => (chClosed /\ evalTxCh = <<>> /\ txEvaluated = txSent))
    /\ [](blockPc = "done" =>
            (chClosed /\ evalBlockCh = <<>> /\ blockEvaluated = blockSent))

\* C12: both loops have ended after Close, each having evaluated requests
C12_Witness ==
    /\ chClosed /\ txPc = "done" /\ blockPc = "done"
    /\ Len(txEvaluated) >= 2 /\ Len(blockEvaluated) >= 1

\* what a counter owned by one pipeline would hold after the outcomes h of that
\* pipeline: told of each error, and of nothing else
RECURSIVE OwnCount(_)
OwnCount(h) ==
    IF h = <<>> THEN 0
    ELSE LET c == OwnCount(SubSeq(h, 1, Len(h) - 1))
             err == h[Len(h)]
         IN  IF err = Nil THEN c ELSE errCounterCount(c, err)

\* C13: a pipeline has published the stop message only when the critical errors it
\* observed itself reach the threshold; the errors and resets the other pipeline
\* observed do not count for it.
C13_PipelinesTripIndependently ==
    /\ txPc = "stopped" => OwnCount(txHist) >= ErrThreshold
    /\ blockPc = "stopped" => OwnCount(blockHist) >= ErrThreshold

\* C14: when detectAgentEvents has returned from a transaction, each log of the
\* transaction that decodes as an event of this node's pool has had its update
\* enqueued, in the order of the logs: no such log follows, unread, the log whose
\* update was enqueued.
C14_EveryLogEnqueued ==
    (detPc = "idle" /\ detErr = "nil") => logVerdict(unread) = "continue"

\* C15: updates enter the queue at its tail and leave it at its head, one at a
\* time, the next one only when the one before has been applied and broadcast;
\* the roster changes only by the consumer applying the update it has in hand;
\* and the consumer goes receive, apply, broadcast for each update, so that none
\* is applied twice or skipped.
C15_AppliedInQueueOrder ==
    /\ [][Len(agentUpdates') > Len(agentUpdates) =>
            /\ Len(agentUpdates') = Len(agentUpdates) + 1
            /\ SubSeq(agentUpdates', 1, Len(agentUpdates)) = agentUpdates]_vars
    /\ [][(agentUpdates' # agentUpdates /\ Len(agentUpdates') <= Len(agentUpdates)) =>
            /\ agentUpdates' = Tail(agentUpdates)
            /\ update' = Head(agentUpdates)
            /\ consumerPc = "recv" /\ consumerPc' = "wait"
            /\ handled = pubCount]_vars
    /\ [][agentsConfigs' # agentsConfigs =>
            /\ consumerPc = "wait" /\ consumerPc' = "publish"
            /\ agentsConfigs' = handleAgentUpdate(agentsConfigs, update).configs]_vars
    /\ [][handled' # handled =>
            /\ handled' = handled + 1
            /\ consumerPc = "wait" /\ consumerPc' = "publish"
            /\ update' = update]_vars
    /\ [][consumerPc' # consumerPc =>
            \/ consumerPc = "recv" /\ consumerPc' = "wait"
            \/ consumerPc = "wait" /\ consumerPc' = "publish"
            \/ consumerPc = "publish" /\ consumerPc' = "recv" /\ pubCount' = pubCount + 1]_vars
    /\ [](consumerPc = "recv" <=> update = NoUpdate)

\* C15: the second of two updates has just been applied and changed the roster,
\* the first one applied and broadcast before it
C15_Witness ==
    /\ handled = 2 /\ pubCount = 1 /\ consumerPc = "publish"
    /\ detCount = 2 /\ agentsConfigs # prevConfigs

IsPrefix(p, q) == Len(p) <= Len(q) /\ SubSeq(q, 1, Len(p)) = p

\* the requests of evaluated whose outcome in hist is success, in order
RECURSIVE Succeeded(_, _)
Succeeded(evaluated, hist) ==
    IF evaluated = <<>> THEN <<>>
    ELSE LET n == Len(evaluated)
             front == Succeeded(SubSeq(evaluated, 1, n - 1), SubSeq(hist, 1, n - 1))
         IN  IF hist[n] = Nil THEN Append(front, evaluated[n]) ELSE front

RequestsOf(results) == [k \in 1..Len(results) |-> results[k].Request]

\* the pipeline with these variables evaluates in enqueue order, one request at a
\* time, and has forwarded one envelope per success, in that order
PipelineInOrder(sent, evaluated, hist, results, pc, request, ch) ==
    /\ IsPrefix(evaluated, sent)
    /\ Len(hist) = Len(evaluated)
    /\ (pc = "eval") <=> (request # 0)
    /\ pc = "eval" => sent = evaluated \o <<request>> \o ch
    /\ pc # "eval" => sent = evaluated \o ch
    /\ RequestsOf(results) = Succeeded(evaluated, hist)
    /\ \A k \in 1..Len(results) : results[k] = resultEnvelope(results[k].Request)

\* C16: each pipeline evaluates its requests in enqueue order with at most one in
\* hand, and the envelopes it has forwarded are those of its successful requests,
\* one each, in the order the requests were enqueued; a failed request has none.
C16_PipelineOrder ==
    /\ PipelineInOrder(txSent, txEvaluated, txHist, txResults, txPc, txRequest, evalTxCh)
    /\ PipelineInOrder(blockSent, blockEvaluated, blockHist, blockResults, blockPc,
                       blockRequest, evalBlockCh)

\* C16: the transaction pipeline evaluated three requests, the second one failed
C16_Witness ==
    /\ Len(txEvaluated) = 3 /\ Len(txResults) = 2
    /\ txHist[2] # Nil
    /\ Len(blockEvaluated) = 1

\* exactly one of the three flags of the update is set
OneFlag(u) ==
    \/ u.IsCreation /\ ~u.IsUpdate /\ ~u.IsRemoval
    \/ ~u.IsCreation /\ u.IsUpdate /\ ~u.IsRemoval
    \/ ~u.IsCreation /\ ~u.IsUpdate /\ u.IsRemoval

\* C18: every update on the queue, and the update the consumer has in hand, has
\* exactly one of IsCreation, IsUpdate, IsRemoval set, and the consumer is never
\* in the panic branch of handleAgentUpdate.
C18_OneFlagNoPanic ==
    /\ \A k \in 1..Len(agentUpdates) : OneFlag(agentUpdates[k])
    /\ consumerPc \in {"wait", "publish"} => OneFlag(update)
    /\ consumerPc # "panic"
    /\ ~handleAgentUpdate(agentsConfigs, update).panic \/ consumerPc = "recv"

\* C18: a removal has been applied while an update-type update waits on the queue
C18_Witness ==
    /\ consumerPc = "publish" /\ update.IsRemoval
    /\ Len(agentUpdates) = 1 /\ agentUpdates[1].IsUpdate

\* C19 (as stated): the number of roster broadcasts always equals the number of
\* updates handled.
C19_Original == pubCount = handled

\* C19 (amended): the number of roster broadcasts equals the number of updates
\* handled except between the return of handleAgentUpdate and the broadcast that
\* follows it, where it is one less; every handled update, one that left the
\* roster as it was included, is followed by one broadcast of the roster.
C19_BroadcastPerUpdate ==
    /\ [](consumerPc # "publish" => pubCount = handled)
    /\ [](consumerPc = "publish" => handled = pubCount + 1)
    /\ [][handled' # handled => consumerPc' = "publish"]_vars
    /\ [][(consumerPc = "publish" /\ consumerPc' # "publish") =>
            /\ pubCount' = pubCount + 1
            /\ published' = agentsConfigs
            /\ agentsConfigs' = agentsConfigs]_vars

\* C19: the one update handled so far left the roster empty, and was broadcast
C19_Witness ==
    /\ consumerPc = "recv" /\ handled = 1 /\ pubCount = 1
    /\ agentsConfigs = <<>> /\ published = <<>>

\* the pipeline has published the stop message
Tripped(by) == \E k \in 1..Len(stopMsgs) : stopMsgs[k].by = by

\* once the pipeline with these variables has tripped, no step evaluates a
\* request of it, adds a result, shortens its queue or restarts it
DeadAfterTrip(by, pc, pcNext, ch, chNext, evaluated, evaluatedNext, results, resultsNext) ==
    Tripped(by) =>
        /\ pc = "stopped" /\ pcNext = "stopped"
        /\ evaluatedNext = evaluated
        /\ resultsNext = results
        /\ IsPrefix(ch, chNext)

\* C20: once a pipeline has published the stop message it evaluates nothing more
\* and forwards no result, its queue only grows, by what producers send, and
\* holds at most 100 requests; when it holds 100 no step changes it, so the next
\* send blocks for as long as the channel is open (and it is not emptied when
\* Close is called).
C20_TrippedPipelineIsDead ==
    /\ [][DeadAfterTrip("tx", txPc, txPc', evalTxCh, evalTxCh', txEvaluated, txEvaluated',
                        txResults, txResults')]_vars
    /\ [][DeadAfterTrip("block", blockPc, blockPc', evalBlockCh, evalBlockCh',
                        blockEvaluated, blockEvaluated', blockResults, blockResults')]_vars
    /\ [](Len(evalTxCh) <= DefaultBufferSize /\ Len(evalBlockCh) <= DefaultBufferSize)
    /\ [][(Tripped("tx") /\ Len(evalTxCh) = DefaultBufferSize) => evalTxCh' = evalTxCh]_vars
    /\ [][(Tripped("block") /\ Len(evalBlockCh) = DefaultBufferSize) =>
            evalBlockCh' = evalBlockCh]_vars

\* C20: the transaction pipeline has tripped with a request left in its queue,
\* and producers have since filled the queue
C20_Witness ==
    /\ Tripped("tx") /\ ~chClosed
    /\ Len(evalTxCh) = DefaultBufferSize
    /\ evalTxCh[1] <= MaxReq
    /\ Len(txEvaluated) = ErrThreshold

====
